---------------------------- MODULE Spec2Model ----------------------------
(***************************************************************************)
(* Model of the entity / scene-graph core of momentumengine.               *)
(*                                                                         *)
(* The heap is a sequence of Entity objects (entity.js); an entity         *)
(* reference is an index into it, Null is the null reference.  The scene   *)
(* (game) object is the single object Scene; it owns frameCounter and      *)
(* _lastFrameTotalRenders.  Every method of Entity is an operator on the   *)
(* heap that returns the heap after the call together with what the call   *)
(* returned or threw; every action applies one method call of the driver.  *)
(***************************************************************************)
EXTENDS Integers, Sequences, FiniteSets, TLC

VARIABLES
    heap,                   \* the Entity objects constructed so far
    frameCounter,           \* game.frameCounter
    lastFrameTotalRenders,  \* game._lastFrameTotalRenders
    now,                    \* the wall clock read by Date.now()
    ret,                    \* what the last call was, returned and threw
    log,                    \* the method invocations of the last traversal
    lastRead,               \* per entity: the last _calculateRelativePos result
    attachedAt,             \* per entity: the clock when it was last attached
    audioCalls              \* the calls of Audio's constructor in progress, outermost first

vars == <<heap, frameCounter, lastFrameTotalRenders, now, ret, log, lastRead,
          attachedAt, audioCalls>>

---------------------------------------------------------------------------
(* Bounds of the model *)

MaxEnt == 3         \* entities constructed
MaxEdges == 3       \* entries over all children lists
MaxCoord == 2       \* coordinates reached by motion are in 0..MaxCoord
MaxWrite == 1       \* coordinates written by e.left = v, e.top = v are in 0..MaxWrite
MaxFrame == 2       \* frameCounter stops here
MaxNow == 3         \* the clock stops here
MaxDelta == 2       \* a tick's delta is in 1..MaxDelta
MaxVel == 2         \* velocity components stay within -MaxVel..MaxVel
MaxRenders == 2     \* game._lastFrameTotalRenders stops here
MaxTTL == 2         \* timeToLive is in 1..MaxTTL when set
MaxStack == 40      \* calls in progress at which the engine raises RangeError

---------------------------------------------------------------------------
(* Values *)

Null == 0                   \* the null reference (_parent = null)
NoGame == "null"            \* _game = null
Scene == "game"             \* the one scene / game object

Vector2D(x, y) == [x |-> x, y |-> y]

None == "none"              \* no exception
TypeError == "TypeError"    \* a method call on null / undefined
RangeError == "RangeError"  \* call stack exhausted by unbounded recursion

Ent(h) == 1..Len(h)

\* new Entity(x, y), constructed at clock value t
EntityNew(x, y, t) ==
    [ pos |-> Vector2D(x, y),
      velocity |-> Vector2D(0, 0),
      acceleration |-> Vector2D(0, 0),
      display |-> TRUE,
      fields |-> << >>,
      children |-> << >>,
      relativePos |-> Vector2D(x, y),
      lastRelativePosCalculated |-> 0,
      game |-> NoGame,
      parent |-> Null,
      creationTime |-> t,
      timeToLive |-> 0,
      update |-> "absent",
      render |-> "absent",
      mass |-> 0 ]

Range(s) == { s[i] : i \in DOMAIN s }

Count(s, c) == Cardinality({ i \in DOMAIN s : s[i] = c })

Edges(h) == LET Sum[i \in 0..Len(h)] ==
                    IF i = 0 THEN 0 ELSE Sum[i - 1] + Len(h[i].children)
            IN  Sum[Len(h)]

---------------------------------------------------------------------------
(* Entity._updateGame: sets _game, then recurses over children.  `path` is *)
(* the chain of calls in progress: meeting an entity of the path again is  *)
(* unbounded recursion, which ends in a RangeError.                        *)

RECURSIVE UpdateGame(_, _, _, _)
RECURSIVE UpdateGameChildren(_, _, _, _, _)

\* the reference set on the entity alone, its children left as they are
UpdateGameShallow(h, e, g, path) ==
    [h |-> [h EXCEPT ![e].game = g], thrown |-> None]

UpdateGameChildren(r, e, i, g, path) ==
    IF r.thrown # None \/ i > Len(r.h[e].children) THEN r
    ELSE UpdateGameChildren(UpdateGame(r.h, r.h[e].children[i], g, path),
                            e, i + 1, g, path)

UpdateGame(h, e, g, path) ==
    IF e \in path THEN [h |-> h, thrown |-> RangeError]
    ELSE UpdateGameChildren(
            [h |-> [h EXCEPT ![e].game = g], thrown |-> None],
            e, 1, g, path \cup {e})

(* Entity.addChildEntity *)
AddChildEntity(h, p, c) ==
    LET r == UpdateGame(h, c, h[p].game, {})
    IN  IF r.thrown # None THEN r
        ELSE [h |-> [r.h EXCEPT ![c].parent = p,
                                ![p].children = Append(r.h[p].children, c)],
              thrown |-> None]

(* Entity.createChildEntity: the child is the next object of the heap *)
CreateChildEntity(h, p, t) ==
    AddChildEntity(Append(h, EntityNew(0, 0, t)), p, Len(h) + 1)

(* Entity.detachChildEntity *)
RemoveAt(s, i) == [j \in 1..(Len(s) - 1) |-> IF j < i THEN s[j] ELSE s[j + 1]]

FirstIndex(s, c) ==
    IF \E i \in DOMAIN s : s[i] = c
    THEN CHOOSE i \in DOMAIN s : s[i] = c /\ \A j \in 1..(i - 1) : s[j] # c
    ELSE 0

\* every matching entry removed
DetachAll(h, p, c) ==
    [h |-> [h EXCEPT ![p].children = SelectSeq(h[p].children, LAMBDA x : x # c)],
     val |-> c \in Range(h[p].children)]

DetachChildEntity(h, p, c) ==
    LET i == FirstIndex(h[p].children, c)
    IN  IF i # 0
        THEN [h |-> [h EXCEPT ![p].children = RemoveAt(h[p].children, i)],
              val |-> TRUE]
        ELSE [h |-> h, val |-> FALSE]

---------------------------------------------------------------------------
(* Entity._calculateRelativePos.  `busy` holds the entities whose call is  *)
(* in progress further down the stack: a parent chain that leads back into *)
(* it, every entity of it stale, never returns (RangeError).  `called` and *)
(* `recomputed` are the entities the call reached and refreshed.           *)

EmptyCalc(h) == [h |-> h, thrown |-> None, called |-> {}, recomputed |-> {}]

VecAdd(a, b) == Vector2D(a.x + b.x, a.y + b.y)

RECURSIVE CalculateRelativePosEveryCall(_, _, _, _)

\* the frame stamp ignored: recomputed on every call
CalculateRelativePosEveryCall(h, e, fc, busy) ==
    IF e \in busy
    THEN [h |-> h, thrown |-> RangeError, called |-> {}, recomputed |-> {}]
    ELSE IF h[e].game # NoGame
    THEN IF h[e].parent # Null
         THEN LET r == CalculateRelativePosEveryCall(h, h[e].parent, fc, busy \cup {e})
              IN  IF r.thrown # None THEN r
                  ELSE [h |-> [r.h EXCEPT
                                 ![e].relativePos =
                                     VecAdd(r.h[e].pos, r.h[h[e].parent].relativePos),
                                 ![e].lastRelativePosCalculated = fc],
                        thrown |-> None,
                        called |-> r.called \cup {e},
                        recomputed |-> r.recomputed \cup {e}]
         ELSE [h |-> [h EXCEPT ![e].relativePos = h[e].pos,
                               ![e].lastRelativePosCalculated = fc],
               thrown |-> None, called |-> {e}, recomputed |-> {e}]
    ELSE [h |-> h, thrown |-> None, called |-> {e}, recomputed |-> {}]

RECURSIVE CalculateRelativePos(_, _, _, _)

CalculateRelativePos(h, e, fc, busy) ==
    IF e \in busy
    THEN [h |-> h, thrown |-> RangeError, called |-> {}, recomputed |-> {}]
    ELSE IF h[e].game # NoGame /\ h[e].lastRelativePosCalculated < fc
    THEN IF h[e].parent # Null
         THEN LET r == CalculateRelativePos(h, h[e].parent, fc, busy \cup {e})
              IN  IF r.thrown # None THEN r
                  ELSE [h |-> [r.h EXCEPT
                                 ![e].relativePos =
                                     VecAdd(r.h[e].pos, r.h[h[e].parent].relativePos),
                                 ![e].lastRelativePosCalculated = fc],
                        thrown |-> None,
                        called |-> r.called \cup {e},
                        recomputed |-> r.recomputed \cup {e}]
         ELSE [h |-> [h EXCEPT ![e].relativePos = h[e].pos,
                               ![e].lastRelativePosCalculated = fc],
               thrown |-> None, called |-> {e}, recomputed |-> {e}]
    ELSE [h |-> h, thrown |-> None, called |-> {e}, recomputed |-> {}]

(* set left (val) / set top (val) *)
SetLeftOp(h, e, val, fc) ==
    LET h1 == [h EXCEPT ![e].pos.x = val]
    IN  IF h1[e].parent # Null
        THEN LET r == CalculateRelativePos(h1, h1[e].parent, fc, {})
             IN  IF r.thrown # None THEN r
                 ELSE [r EXCEPT !.h[e].relativePos.x =
                                    r.h[e].pos.x + r.h[h1[e].parent].relativePos.x]
        ELSE [EmptyCalc(h1) EXCEPT !.h[e].relativePos.x = h1[e].pos.x]

SetTopOp(h, e, val, fc) ==
    LET h1 == [h EXCEPT ![e].pos.y = val]
    IN  IF h1[e].parent # Null
        THEN LET r == CalculateRelativePos(h1, h1[e].parent, fc, {})
             IN  IF r.thrown # None THEN r
                 ELSE [r EXCEPT !.h[e].relativePos.y =
                                    r.h[e].pos.y + r.h[h1[e].parent].relativePos.y]
        ELSE [EmptyCalc(h1) EXCEPT !.h[e].relativePos.y = h1[e].pos.y]

---------------------------------------------------------------------------
(* Entity._calculateFields.  Numbers are integers: a force is modelled     *)
(* where Math.pow(dot, 1.5) and the quotient are whole numbers (Exact);    *)
(* the calls whose force is not (an irrational or non-finite one) are      *)
(* outside the model.                                                      *)

Dot(v) == v.x * v.x + v.y * v.y

IsSquare(n) == \E r \in 0..n : r * r = n

Sqrt(n) == CHOOSE r \in 0..n : r * r = n

\* Math.pow(n, 1.5), n a perfect square
Pow15(n) == Sqrt(n) * Sqrt(n) * Sqrt(n)

Divides(d, n) == d # 0 /\ (IF n >= 0 THEN n % d = 0 ELSE (0 - n) % d = 0)

Quot(n, d) == IF n >= 0 THEN n \div d ELSE 0 - ((0 - n) \div d)

\* the subtraction the other way round: from the field to the entity
OffsetReversed(h, e, f) ==
    Vector2D(h[e].relativePos.x - h[f].relativePos.x,
             h[e].relativePos.y - h[f].relativePos.y)

\* vector = field.relativePos - this.relativePos, once both are resolved
Offset(h, e, f) ==
    Vector2D(h[f].relativePos.x - h[e].relativePos.x,
             h[f].relativePos.y - h[e].relativePos.y)

ExactForce(v, m, delta) ==
    /\ Dot(v) > 0
    /\ IsSquare(Dot(v))
    /\ Divides(Pow15(Dot(v)), m * v.x * delta)
    /\ Divides(Pow15(Dot(v)), m * v.y * delta)

\* vector.multiply(field.mass / Math.pow(vector.dot(vector), 1.5)).multiply(delta)
ForceTimesDelta(v, m, delta) ==
    Vector2D(Quot(m * v.x * delta, Pow15(Dot(v))),
             Quot(m * v.y * delta, Pow15(Dot(v))))

\* r = [h, thrown, exact, called, acc] is the state of the loop of
\* _calculateFields; r1, r2 are field.relativeLeft and this.relativeLeft resolved
FieldAdd(r, r1, r2, v, m, delta) ==
    IF ~ExactForce(v, m, delta) THEN [r EXCEPT !.exact = FALSE]
    ELSE [h |-> r2.h, thrown |-> None, exact |-> TRUE,
          called |-> r.called \cup r1.called \cup r2.called,
          acc |-> VecAdd(r.acc, ForceTimesDelta(v, m, delta))]

FieldSelf(r, r1, r2, e, f, delta) ==
    IF r2.thrown # None
    THEN [r EXCEPT !.h = r1.h, !.thrown = r2.thrown,
                   !.called = r.called \cup r1.called]
    ELSE FieldAdd(r, r1, r2, Offset(r2.h, e, f), r2.h[f].mass, delta)

FieldStep(r, r1, e, f, delta, fc) ==
    IF r1.thrown # None THEN [r EXCEPT !.thrown = r1.thrown]
    ELSE FieldSelf(r, r1, CalculateRelativePos(r1.h, e, fc, {}), e, f, delta)

RECURSIVE FieldSum(_, _, _, _, _)

FieldSum(r, e, i, delta, fc) ==
    IF r.thrown # None \/ ~r.exact \/ i > Len(r.h[e].fields) THEN r
    ELSE FieldSum(FieldStep(r, CalculateRelativePos(r.h, r.h[e].fields[i], fc, {}),
                            e, r.h[e].fields[i], delta, fc),
                  e, i + 1, delta, fc)

\* returns this.acceleration.clone().add(acceleration) in acc
WithOwnAcceleration(r, e) == [r EXCEPT !.acc = VecAdd(r.h[e].acceleration, r.acc)]

CalculateFields(h, e, delta, fc) ==
    WithOwnAcceleration(
        FieldSum([h |-> h, thrown |-> None, exact |-> TRUE, called |-> {},
                  acc |-> Vector2D(0, 0)], e, 1, delta, fc), e)

---------------------------------------------------------------------------
(* Entity._updateEntity.  t = [h, log, thrown, exact, called] is the state *)
(* of the traversal; env = [delta, out, now, fc] holds the tick's delta,   *)
(* what each entity's update hook returns when called, Date.now() and the  *)
(* frame counter.  A log entry is one invocation: of _updateEntity (on e,  *)
(* by the forEach of `from`, Null for the driver) or of the update hook.   *)
(* Every step passes a traversal that has thrown on unchanged.             *)

UpdateReturns == {"undefined", "true", "false", "zero"}

Truthy(v) == v = "true"

Event(ev, e, from, val) == [ev |-> ev, e |-> e, from |-> from, val |-> val]

Stopped(t) == t.thrown # None \/ ~t.exact

Enter(t, e, from) ==
    [t EXCEPT !.log = Append(t.log, Event("_updateEntity", e, from, ""))]

\* the comparison with >= in place of >
ExpiredAtOrAfter(h, e, clock) ==
    h[e].timeToLive # 0 /\ clock - h[e].creationTime >= h[e].timeToLive

\* line 332-333
Expired(h, e, clock) ==
    h[e].timeToLive # 0 /\ clock - h[e].creationTime > h[e].timeToLive

\* lines 332-336: the timeToLive check
Expire(t, e, env) ==
    IF Stopped(t) \/ ~Expired(t.h, e, env.now) THEN t
    ELSE IF t.h[e].parent = Null
    THEN [t EXCEPT !.thrown = TypeError]
    ELSE [t EXCEPT !.h = DetachChildEntity(t.h, t.h[e].parent, e).h]

\* lines 341-343, r the result of this._calculateFields(delta)
Integrate(t, e, env, r) ==
    IF r.thrown # None \/ ~r.exact
    THEN [t EXCEPT !.h = r.h, !.thrown = r.thrown, !.exact = r.exact,
                   !.called = t.called \cup r.called]
    ELSE [t EXCEPT !.h = [r.h EXCEPT
                            ![e].velocity = VecAdd(r.h[e].velocity, r.acc),
                            ![e].pos = Vector2D(
                                r.h[e].pos.x + (r.h[e].velocity.x + r.acc.x) * env.delta,
                                r.h[e].pos.y + (r.h[e].velocity.y + r.acc.y) * env.delta)],
                   !.called = t.called \cup r.called]

\* the step without the velocity test of line 339
MoveAlways(t, e, env) ==
    IF Stopped(t) THEN t
    ELSE Integrate(t, e, env, CalculateFields(t.h, e, env.delta, env.fc))

\* line 345: the physics step of e is complete
Stepped(t, e) ==
    IF Stopped(t) THEN t
    ELSE [t EXCEPT !.log = Append(t.log, Event("physics", e, Null, ""))]

\* lines 339-345: the physics step
Move(t, e, env) ==
    IF Stopped(t) THEN t
    ELSE IF t.h[e].velocity.x # 0 \/ t.h[e].velocity.y # 0
    THEN Stepped(Integrate(t, e, env, CalculateFields(t.h, e, env.delta, env.fc)), e)
    ELSE t

\* line 348: updated = this.update && this.update(delta)
Updated(h, e, env) == IF h[e].update = "absent" THEN "undefined" ELSE env.out[e]

CallUpdate(t, e, env) ==
    IF Stopped(t) \/ t.h[e].update = "absent" THEN t
    ELSE [t EXCEPT !.log = Append(t.log, Event("update", e, Null, env.out[e]))]

\* line 350
Propagates(h, e, env) ==
    \/ Truthy(Updated(h, e, env))
    \/ Updated(h, e, env) = "undefined"
    \/ h[e].update = "absent"

RECURSIVE UpdateEntity(_, _, _, _)
RECURSIVE UpdateChildren(_, _, _, _, _)

\* this.children.forEach: indices 0..n0-1 of the array as it is when reached
UpdateChildren(t, e, k, n0, env) ==
    IF Stopped(t) \/ k > n0 \/ k > Len(t.h[e].children) THEN t
    ELSE UpdateChildren(UpdateEntity(t, t.h[e].children[k], e, env),
                        e, k + 1, n0, env)

\* lines 350-356
Descend(t, e, env) ==
    IF Stopped(t) \/ ~Propagates(t.h, e, env) THEN t
    ELSE UpdateChildren(t, e, 1, Len(t.h[e].children), env)

\* the children ticked before the entity's own physics step and hook
UpdateEntityChildrenFirst(t, e, from, env) ==
    CallUpdate(Move(Descend(Expire(Enter(t, e, from), e, env), e, env), e, env),
               e, env)

UpdateEntity(t, e, from, env) ==
    Descend(CallUpdate(Move(Expire(Enter(t, e, from), e, env), e, env), e, env),
            e, env)

---------------------------------------------------------------------------
(* Entity._renderEntity.  t = [log, thrown, renders]: the invocations, the *)
(* exception and the increments of game._lastFrameTotalRenders; rout is    *)
(* what each entity's render hook returns when called.  The render         *)
(* property is "absent", "hook" (a user's method) or "Rect" (Rect.render). *)

EnterRender(t, e, from) ==
    [t EXCEPT !.log = Append(t.log, Event("_renderEntity", e, from, ""))]

\* Rect.render, line 33: this._recalculatePos is not a method of Entity
RectRender(t, e) == [t EXCEPT !.thrown = TypeError]

\* line 363: the call this.render() of rendered = this.display && this.render && this.render()
CallRender(t, h, e, rout) ==
    IF t.thrown # None \/ ~h[e].display \/ h[e].render = "absent" THEN t
    ELSE IF h[e].render = "Rect"
    THEN RectRender([t EXCEPT !.log = Append(t.log, Event("render", e, Null, ""))], e)
    ELSE [t EXCEPT !.log = Append(t.log, Event("render", e, Null, rout[e]))]

\* line 363: the value of rendered
Rendered(h, e, rout) ==
    IF ~h[e].display THEN "false"
    ELSE IF h[e].render = "absent" THEN "undefined"
    ELSE rout[e]

\* lines 365-367
CountRender(t, h, e, rout) ==
    IF t.thrown # None \/ ~Truthy(Rendered(h, e, rout)) THEN t
    ELSE IF h[e].game = NoGame THEN [t EXCEPT !.thrown = TypeError]
    ELSE [t EXCEPT !.renders = t.renders + 1]

\* line 369
RenderPropagates(h, e, rout) ==
    \/ Truthy(Rendered(h, e, rout))
    \/ Rendered(h, e, rout) = "undefined"
    \/ h[e].render = "absent"

RECURSIVE RenderEntity(_, _, _, _, _)
RECURSIVE RenderChildren(_, _, _, _, _)

RenderChildren(t, h, e, k, rout) ==
    IF t.thrown # None \/ k > Len(h[e].children) THEN t
    ELSE RenderChildren(RenderEntity(t, h, h[e].children[k], e, rout),
                        h, e, k + 1, rout)

\* lines 369-375
DescendRender(t, h, e, rout) ==
    IF t.thrown # None \/ ~RenderPropagates(h, e, rout) THEN t
    ELSE RenderChildren(t, h, e, 1, rout)

RenderEntity(t, h, e, from, rout) ==
    DescendRender(
        CountRender(CallRender(EnterRender(t, e, from), h, e, rout), h, e, rout),
        h, e, rout)

\* The entities a traversal from e can reach, and whether it ends
Kids(h, S) == UNION { Range(h[x].children) : x \in S }

RECURSIVE ReachFrom(_, _)

ReachFrom(h, S) ==
    IF Kids(h, S) \subseteq S THEN S ELSE ReachFrom(h, S \cup Kids(h, S))

Descendants(h, e) == ReachFrom(h, Kids(h, {e}))

Acyclic(h, e) == \A x \in ReachFrom(h, {e}) : x \notin Descendants(h, x)

---------------------------------------------------------------------------
(* Writes of the public properties *)

\* setVelocity(x, y), setAcceleration(x, y) with numbers
SetVelocityOp(h, e, x, y) == [h EXCEPT ![e].velocity = Vector2D(x, y)]

SetAccelerationOp(h, e, x, y) == [h EXCEPT ![e].acceleration = Vector2D(x, y)]

\* e.fields.push(f), f an entity that exposes mass m
PushField(h, e, f) == [h EXCEPT ![e].fields = Append(h[e].fields, f)]

WithMass(h, f, m) == [h EXCEPT ![f].mass = m]

WithTimeToLive(h, e, ttl) == [h EXCEPT ![e].timeToLive = ttl]

WithUpdate(h, e, hook) == [h EXCEPT ![e].update = hook]

WithRender(h, e, hook) == [h EXCEPT ![e].render = hook]

WithDisplay(h, e, b) == [h EXCEPT ![e].display = b]

---------------------------------------------------------------------------
(* History of reads: for each entity the frame and the vector of the last  *)
(* _calculateRelativePos call made on it while it had a scene, and whether *)
(* a position was written since.                                           *)

NeverRead == [frame |-> -1, val |-> Vector2D(0, 0), clean |-> FALSE]

NoteReads(lr, h0, r, fc) ==
    [e \in Ent(r.h) |->
        IF e \in r.called /\ h0[e].game # NoGame
        THEN [frame |-> fc, val |-> r.h[e].relativePos, clean |-> TRUE]
        ELSE IF e \in DOMAIN lr THEN lr[e] ELSE NeverRead]

Dirty(lr, h) ==
    [e \in Ent(h) |-> IF e \in DOMAIN lr
                      THEN [frame |-> lr[e].frame, val |-> Vector2D(0, 0),
                            clean |-> FALSE]
                      ELSE NeverRead]

Grow(lr, h) == [e \in Ent(h) |-> IF e \in DOMAIN lr THEN lr[e] ELSE NeverRead]

\* What the last call was, what it returned (a number or a boolean) and threw
Ret(op, num, bool, thrown) ==
    [op |-> op, num |-> num, bool |-> bool, thrown |-> thrown]

NeverAttached == -1

Attached(at, h, c, t) ==
    [e \in Ent(h) |-> IF e = c THEN t
                      ELSE IF e \in DOMAIN at THEN at[e] ELSE NeverAttached]

---------------------------------------------------------------------------
(* Actions: one per call the driver makes *)

Init ==
    /\ heap = << >>
    /\ frameCounter = 0
    /\ lastFrameTotalRenders = 0
    /\ now = 0
    /\ ret = Ret("init", 0, FALSE, None)
    /\ log = << >>
    /\ audioCalls = << >>
    /\ lastRead = << >>
    /\ attachedAt = << >>

\* e = new Entity(x, y)
NewEntity(x, y) ==
    /\ Len(heap) < MaxEnt
    /\ heap' = Append(heap, EntityNew(x, y, now))
    /\ lastRead' = Grow(lastRead, heap')
    /\ attachedAt' = Attached(attachedAt, heap', Null, now)
    /\ ret' = Ret("new", 0, FALSE, None)
    /\ log' = << >>
    /\ UNCHANGED audioCalls
    /\ UNCHANGED <<frameCounter, lastFrameTotalRenders, now>>

\* the driver puts e (and its subtree) into the scene: e._updateGame(game)
SetGame(e) ==
    /\ e \in Ent(heap)
    /\ LET r == UpdateGame(heap, e, Scene, {})
       IN  /\ heap' = r.h
           /\ ret' = Ret("_updateGame", 0, FALSE, r.thrown)
    /\ log' = << >>
    /\ UNCHANGED audioCalls
    /\ UNCHANGED <<frameCounter, lastFrameTotalRenders, now, lastRead, attachedAt>>

\* p.createChildEntity()
CreateChild(p) ==
    /\ p \in Ent(heap)
    /\ Len(heap) < MaxEnt
    /\ Edges(heap) < MaxEdges
    /\ LET r == CreateChildEntity(heap, p, now)
       IN  /\ heap' = r.h
           /\ ret' = Ret("createChildEntity", Len(heap) + 1, FALSE, r.thrown)
    /\ lastRead' = Grow(lastRead, heap')
    /\ attachedAt' = Attached(attachedAt, heap', Len(heap) + 1, now)
    /\ log' = << >>
    /\ UNCHANGED audioCalls
    /\ UNCHANGED <<frameCounter, lastFrameTotalRenders, now>>

\* p.addChildEntity(c)
AddChild(p, c) ==
    /\ p \in Ent(heap) /\ c \in Ent(heap)
    /\ Edges(heap) < MaxEdges
    /\ LET r == AddChildEntity(heap, p, c)
       IN  /\ heap' = r.h
           /\ ret' = Ret("addChildEntity", c, FALSE, r.thrown)
           /\ attachedAt' = IF r.thrown = None
                            THEN Attached(attachedAt, heap, c, now)
                            ELSE attachedAt
    /\ log' = << >>
    /\ UNCHANGED audioCalls
    /\ UNCHANGED <<frameCounter, lastFrameTotalRenders, now, lastRead>>

\* p.detachChildEntity(c)
Detach(p, c) ==
    /\ p \in Ent(heap) /\ c \in Ent(heap)
    /\ LET r == DetachChildEntity(heap, p, c)
       IN  /\ heap' = r.h
           /\ ret' = Ret("detachChildEntity", 0, r.val, None)
    /\ log' = << >>
    /\ UNCHANGED audioCalls
    /\ UNCHANGED <<frameCounter, lastFrameTotalRenders, now, lastRead, attachedAt>>

\* e.left = v
SetLeft(e, v) ==
    /\ e \in Ent(heap)
    /\ LET r == SetLeftOp(heap, e, v, frameCounter)
       IN  /\ heap' = r.h
           /\ ret' = Ret("left=", v, FALSE, r.thrown)
           /\ lastRead' = Dirty(NoteReads(lastRead, heap, r, frameCounter), heap)
    /\ log' = << >>
    /\ UNCHANGED audioCalls
    /\ UNCHANGED <<frameCounter, lastFrameTotalRenders, now, attachedAt>>

\* e.top = v
SetTop(e, v) ==
    /\ e \in Ent(heap)
    /\ LET r == SetTopOp(heap, e, v, frameCounter)
       IN  /\ heap' = r.h
           /\ ret' = Ret("top=", v, FALSE, r.thrown)
           /\ lastRead' = Dirty(NoteReads(lastRead, heap, r, frameCounter), heap)
    /\ log' = << >>
    /\ UNCHANGED audioCalls
    /\ UNCHANGED <<frameCounter, lastFrameTotalRenders, now, attachedAt>>

\* e.relativeLeft: ret.num is the value, ret.bool whether e's cache was recomputed
GetRelativeLeft(e) ==
    /\ e \in Ent(heap)
    /\ LET r == CalculateRelativePos(heap, e, frameCounter, {})
       IN  /\ heap' = r.h
           /\ ret' = Ret("relativeLeft",
                         IF r.thrown = None THEN r.h[e].relativePos.x ELSE 0,
                         e \in r.recomputed, r.thrown)
           /\ lastRead' = NoteReads(lastRead, heap, r, frameCounter)
    /\ log' = << >>
    /\ UNCHANGED audioCalls
    /\ UNCHANGED <<frameCounter, lastFrameTotalRenders, now, attachedAt>>

\* e.relativeTop
GetRelativeTop(e) ==
    /\ e \in Ent(heap)
    /\ LET r == CalculateRelativePos(heap, e, frameCounter, {})
       IN  /\ heap' = r.h
           /\ ret' = Ret("relativeTop",
                         IF r.thrown = None THEN r.h[e].relativePos.y ELSE 0,
                         e \in r.recomputed, r.thrown)
           /\ lastRead' = NoteReads(lastRead, heap, r, frameCounter)
    /\ log' = << >>
    /\ UNCHANGED audioCalls
    /\ UNCHANGED <<frameCounter, lastFrameTotalRenders, now, attachedAt>>

\* the driver's frame loop: game.frameCounter++
NextFrame ==
    /\ frameCounter < MaxFrame
    /\ frameCounter' = frameCounter + 1
    /\ ret' = Ret("frame", 0, FALSE, None)
    /\ log' = << >>
    /\ UNCHANGED audioCalls
    /\ UNCHANGED <<heap, lastFrameTotalRenders, now, lastRead, attachedAt>>

\* e.setVelocity(x, y)
SetVelocity(e, x, y) ==
    /\ e \in Ent(heap)
    /\ heap' = SetVelocityOp(heap, e, x, y)
    /\ ret' = Ret("setVelocity", 0, FALSE, None)
    /\ log' = << >>
    /\ UNCHANGED audioCalls
    /\ UNCHANGED <<frameCounter, lastFrameTotalRenders, now, lastRead, attachedAt>>

\* the clock advances
Tick ==
    /\ now < MaxNow
    /\ now' = now + 1
    /\ ret' = Ret("clock", 0, FALSE, None)
    /\ log' = << >>
    /\ UNCHANGED audioCalls
    /\ UNCHANGED <<heap, frameCounter, lastFrameTotalRenders, lastRead, attachedAt>>

Abs(n) == IF n >= 0 THEN n ELSE 0 - n

InBox(h) ==
    \A e \in Ent(h) :
        /\ Abs(h[e].pos.x) <= MaxCoord /\ Abs(h[e].pos.y) <= MaxCoord
        /\ Abs(h[e].velocity.x) <= MaxVel /\ Abs(h[e].velocity.y) <= MaxVel

\* what the update hooks return in one tick; an entity without a hook returns nothing
Outs(h) ==
    { o \in [Ent(h) -> UpdateReturns] :
        \A e \in Ent(h) : h[e].update = "absent" => o[e] = "undefined" }

Tick0(h) == [h |-> h, log |-> << >>, thrown |-> None, exact |-> TRUE, called |-> {}]

Env(delta, out, clock, fc) == [delta |-> delta, out |-> out, now |-> clock, fc |-> fc]

\* the driver's call returned (or threw) with the traversal in state t
Ticked(e, t) ==
    /\ t.exact
    /\ InBox(t.h)
    /\ heap' = t.h
    /\ log' = t.log
    /\ UNCHANGED audioCalls
    /\ ret' = Ret("_updateEntity", e, FALSE, t.thrown)
    /\ lastRead' = Dirty(NoteReads(lastRead, heap, t, frameCounter), heap)

\* e._updateEntity(delta), called by the driver
UpdateEntityCall(e, delta, out) ==
    /\ e \in Ent(heap)
    /\ Acyclic(heap, e)
    /\ Ticked(e, UpdateEntity(Tick0(heap), e, Null,
                              Env(delta, out, now, frameCounter)))
    /\ UNCHANGED <<frameCounter, lastFrameTotalRenders, now, attachedAt>>

\* what the render hooks return in one frame
Routs(h) ==
    { o \in [Ent(h) -> UpdateReturns] :
        \A e \in Ent(h) : h[e].render # "hook" => o[e] = "undefined" }

Rendered0 == [log |-> << >>, thrown |-> None, renders |-> 0]

Drawn(e, t) ==
    /\ lastFrameTotalRenders + t.renders <= MaxRenders
    /\ lastFrameTotalRenders' = lastFrameTotalRenders + t.renders
    /\ log' = t.log
    /\ UNCHANGED audioCalls
    /\ ret' = Ret("_renderEntity", e, FALSE, t.thrown)

\* e._renderEntity(), called by the driver
RenderEntityCall(e, rout) ==
    /\ e \in Ent(heap)
    /\ Acyclic(heap, e)
    /\ Drawn(e, RenderEntity(Rendered0, heap, e, Null, rout))
    /\ UNCHANGED <<heap, frameCounter, now, lastRead, attachedAt>>

\* e.display = b
SetDisplay(e, b) ==
    /\ e \in Ent(heap)
    /\ heap' = WithDisplay(heap, e, b)
    /\ ret' = Ret("display=", 0, b, None)
    /\ log' = << >>
    /\ UNCHANGED audioCalls
    /\ UNCHANGED <<frameCounter, lastFrameTotalRenders, now, lastRead, attachedAt>>

\* e.render = a method, or delete e.render
SetRender(e, hook) ==
    /\ e \in Ent(heap)
    /\ heap' = WithRender(heap, e, hook)
    /\ ret' = Ret("render=", 0, FALSE, None)
    /\ log' = << >>
    /\ UNCHANGED audioCalls
    /\ UNCHANGED <<frameCounter, lastFrameTotalRenders, now, lastRead, attachedAt>>

\* e.update = a method, or delete e.update
SetUpdate(e, hook) ==
    /\ e \in Ent(heap)
    /\ heap' = WithUpdate(heap, e, hook)
    /\ ret' = Ret("update=", 0, FALSE, None)
    /\ log' = << >>
    /\ UNCHANGED audioCalls
    /\ UNCHANGED <<frameCounter, lastFrameTotalRenders, now, lastRead, attachedAt>>

\* e.timeToLive = ttl
SetTimeToLive(e, ttl) ==
    /\ e \in Ent(heap)
    /\ heap' = WithTimeToLive(heap, e, ttl)
    /\ ret' = Ret("timeToLive=", ttl, FALSE, None)
    /\ log' = << >>
    /\ UNCHANGED audioCalls
    /\ UNCHANGED <<frameCounter, lastFrameTotalRenders, now, lastRead, attachedAt>>

---------------------------------------------------------------------------
(* The tree operations alone, from an empty heap *)

NextTree ==
    \/ NewEntity(0, 0)
    \/ SetGame(1)
    \/ \E p \in 1..MaxEnt : CreateChild(p)
    \/ \E p, c \in 1..MaxEnt : AddChild(p, c)
    \/ \E p, c \in 1..MaxEnt : Detach(p, c)

SpecTree == Init /\ [][NextTree]_vars

---------------------------------------------------------------------------
(* Relative positions of a parent and its child: entity 2 attached to      *)
(* entity 1, outside the scene, inside it, or detached again before 1      *)
(* entered the scene (2 keeps its _parent).  Then written and read.        *)

Two == << EntityNew(1, 2, 0), EntityNew(1, 2, 0) >>

Pairs ==
    { AddChildEntity(Two, 1, 2).h,
      AddChildEntity(UpdateGame(Two, 1, Scene, {}).h, 1, 2).h,
      UpdateGame(DetachChildEntity(AddChildEntity(Two, 1, 2).h, 1, 2).h,
                 1, Scene, {}).h }

InitPos ==
    /\ heap \in Pairs
    /\ frameCounter \in {0, 1}
    /\ lastFrameTotalRenders = 0
    /\ now = 0
    /\ ret = Ret("init", 0, FALSE, None)
    /\ log = << >>
    /\ audioCalls = << >>
    /\ lastRead = [e \in 1..2 |-> NeverRead]
    /\ attachedAt = [e \in 1..2 |-> IF e = 1 THEN NeverAttached ELSE 0]

NextPos ==
    \/ \E e \in 1..MaxEnt, v \in 0..MaxWrite : SetLeft(e, v)
    \/ \E e \in 1..MaxEnt, v \in 0..MaxWrite : SetTop(e, v)
    \/ \E e \in 1..MaxEnt : GetRelativeLeft(e)
    \/ \E e \in 1..MaxEnt : GetRelativeTop(e)
    \/ SetGame(1)
    \/ NextFrame

SpecPos == InitPos /\ [][NextPos]_vars

---------------------------------------------------------------------------
(* A chain 1 -> 2 -> 3 constructed at (1, 2) each, attached top-down or    *)
(* bottom-up, with or without the scene on its root, then read.            *)

Three == << EntityNew(1, 2, 0), EntityNew(1, 2, 0), EntityNew(1, 2, 0) >>

ChainOf(h, topDown) ==
    IF topDown
    THEN AddChildEntity(AddChildEntity(h, 1, 2).h, 2, 3).h
    ELSE AddChildEntity(AddChildEntity(h, 2, 3).h, 1, 2).h

Chains ==
    { ChainOf(IF inScene THEN UpdateGame(Three, 1, Scene, {}).h ELSE Three, topDown) :
        topDown \in BOOLEAN, inScene \in BOOLEAN }

InitChain ==
    /\ heap \in Chains
    /\ frameCounter \in {0, 1}
    /\ lastFrameTotalRenders = 0
    /\ now = 0
    /\ ret = Ret("init", 0, FALSE, None)
    /\ log = << >>
    /\ audioCalls = << >>
    /\ lastRead = [e \in 1..3 |-> NeverRead]
    /\ attachedAt = [e \in 1..3 |-> IF e = 1 THEN NeverAttached ELSE 0]

NextChain ==
    \/ \E e \in 1..MaxEnt : GetRelativeLeft(e)
    \/ \E e \in 1..MaxEnt : GetRelativeTop(e)
    \/ SetLeft(1, 0)
    \/ SetGame(1)
    \/ NextFrame

SpecChain == InitChain /\ [][NextChain]_vars

---------------------------------------------------------------------------
(* Physics: entity 1 with children 2 and 3; 2 is a field of some mass at   *)
(* some place, 3 moves at velocity (1, 0) and is subject to the field; 1   *)
(* may be subject to it too and may have an acceleration.                   *)

Masses == {1, 8}

FieldPlaces == { Vector2D(1, 0), Vector2D(0, 2) }

PhysHeaps ==
    { LET h0 == << EntityNew(0, 0, 0), EntityNew(at.x, at.y, 0), EntityNew(0, 0, 0) >>
          h1 == IF inScene THEN UpdateGame(h0, 1, Scene, {}).h ELSE h0
          h2 == AddChildEntity(AddChildEntity(h1, 1, 2).h, 1, 3).h
          h3 == PushField(SetVelocityOp(WithMass(h2, 2, m), 3, 1, 0), 3, 2)
          h4 == IF pulled THEN PushField(h3, 1, 2) ELSE h3
      IN  SetAccelerationOp(h4, 1, 0, acc) :
        at \in FieldPlaces, m \in Masses, inScene \in BOOLEAN,
        pulled \in BOOLEAN, acc \in {0, 1} }

InitPhys ==
    /\ heap \in PhysHeaps
    /\ frameCounter \in {0, 1}
    /\ lastFrameTotalRenders = 0
    /\ now = 0
    /\ ret = Ret("init", 0, FALSE, None)
    /\ log = << >>
    /\ audioCalls = << >>
    /\ lastRead = [e \in 1..3 |-> NeverRead]
    /\ attachedAt = [e \in 1..3 |-> IF e = 1 THEN NeverAttached ELSE 0]

NextPhys ==
    \/ \E e \in 1..MaxEnt, delta \in 1..MaxDelta, out \in Outs(heap) :
            UpdateEntityCall(e, delta, out)
    \/ \E x, y \in {0, 1} : SetVelocity(1, x, y)
    \/ NextFrame

SpecPhys == InitPhys /\ [][NextPhys]_vars

---------------------------------------------------------------------------
(* Rendering: entity 1 with children 2 and 3, or the chain 1 -> 2 -> 3, in *)
(* the scene or not; display flags and render hooks are set, then drawn.   *)

Family(h, flat) ==
    IF flat
    THEN AddChildEntity(AddChildEntity(h, 1, 2).h, 1, 3).h
    ELSE AddChildEntity(AddChildEntity(h, 1, 2).h, 2, 3).h

RenderHeaps ==
    { Family(IF inScene THEN UpdateGame(Three, 1, Scene, {}).h ELSE Three, flat) :
        flat \in BOOLEAN, inScene \in BOOLEAN }

InitRender ==
    /\ heap \in RenderHeaps
    /\ frameCounter = 0
    /\ lastFrameTotalRenders = 0
    /\ now = 0
    /\ ret = Ret("init", 0, FALSE, None)
    /\ log = << >>
    /\ audioCalls = << >>
    /\ lastRead = [e \in 1..3 |-> NeverRead]
    /\ attachedAt = [e \in 1..3 |-> IF e = 1 THEN NeverAttached ELSE 0]

NextRender ==
    \/ \E e \in 1..MaxEnt, rout \in Routs(heap) : RenderEntityCall(e, rout)
    \/ \E e \in 1..MaxEnt, b \in BOOLEAN : SetDisplay(e, b)
    \/ \E e \in 1..MaxEnt, hook \in {"absent", "hook"} : SetRender(e, hook)

SpecRender == InitRender /\ [][NextRender]_vars

---------------------------------------------------------------------------
(* Ticks: entity 2, constructed at clock 0 or 1, and entity 3, constructed *)
(* at clock 1, are attached at clock 1 under entity 1 (side by side or as  *)
(* a chain); then the clock advances, timeToLive and update hooks are set, *)
(* and the tree is ticked.                                                 *)

Born(t2, t3) == << EntityNew(0, 0, 0), EntityNew(0, 0, t2), EntityNew(0, 0, t3) >>

TickHeaps ==
    { Family(Born(t2, 1), flat) : t2 \in {0, 1}, flat \in BOOLEAN }

InitTick ==
    /\ heap \in TickHeaps
    /\ frameCounter = 0
    /\ lastFrameTotalRenders = 0
    /\ now = 1
    /\ ret = Ret("init", 0, FALSE, None)
    /\ log = << >>
    /\ audioCalls = << >>
    /\ lastRead = [e \in 1..3 |-> NeverRead]
    /\ attachedAt = [e \in 1..3 |-> IF e = 1 THEN NeverAttached ELSE 1]

NextTick ==
    \/ Tick
    \/ \E e \in 2..MaxEnt, ttl \in 1..MaxTTL : SetTimeToLive(e, ttl)
    \/ \E e \in 1..2, hook \in {"absent", "hook"} : SetUpdate(e, hook)
    \/ SetVelocity(1, 1, 0)
    \/ \E e \in 1..MaxEnt, out \in Outs(heap) : UpdateEntityCall(e, 1, out)

SpecTick == InitTick /\ [][NextTick]_vars

---------------------------------------------------------------------------
(* Traversals: the families of three entities, in the scene or not, entity *)
(* 1 at rest or moving; update and render hooks are set on 1 and 2 (the    *)
(* render of 1 may be Rect.render), then the tree is ticked and drawn.     *)

VisitHeaps ==
    { SetVelocityOp(h, 1, x, 0) : h \in RenderHeaps, x \in {0, 1} }

InitVisit ==
    /\ heap \in VisitHeaps
    /\ frameCounter = 0
    /\ lastFrameTotalRenders = 0
    /\ now = 0
    /\ ret = Ret("init", 0, FALSE, None)
    /\ log = << >>
    /\ audioCalls = << >>
    /\ lastRead = [e \in 1..3 |-> NeverRead]
    /\ attachedAt = [e \in 1..3 |-> IF e = 1 THEN NeverAttached ELSE 0]

NextVisit ==
    \/ \E e \in 1..2, hook \in {"absent", "hook"} : SetUpdate(e, hook)
    \/ \E hook \in {"absent", "hook", "Rect"} : SetRender(1, hook)
    \/ \E hook \in {"absent", "hook"} : SetRender(2, hook)
    \/ \E e \in 1..MaxEnt, out \in Outs(heap) : UpdateEntityCall(e, 1, out)
    \/ \E e \in 1..MaxEnt, rout \in Routs(heap) : RenderEntityCall(e, rout)

SpecVisit == InitVisit /\ [][NextVisit]_vars

---------------------------------------------------------------------------
(* Expiry of the root: the families of three entities constructed at clock *)
(* 0, entity 1 (which has no parent) at rest or moving; the clock          *)
(* advances, timeToLive and an update hook are set on 1, the tree is       *)
(* ticked.                                                                 *)

ExpiryHeaps ==
    { SetVelocityOp(Family(Born(0, 0), flat), 1, x, 0) : flat \in BOOLEAN, x \in {0, 1} }

InitExpiry ==
    /\ heap \in ExpiryHeaps
    /\ frameCounter = 0
    /\ lastFrameTotalRenders = 0
    /\ now = 0
    /\ ret = Ret("init", 0, FALSE, None)
    /\ log = << >>
    /\ audioCalls = << >>
    /\ lastRead = [e \in 1..3 |-> NeverRead]
    /\ attachedAt = [e \in 1..3 |-> IF e = 1 THEN NeverAttached ELSE 0]

NextExpiry ==
    \/ Tick
    \/ \E ttl \in 1..MaxTTL : SetTimeToLive(1, ttl)
    \/ \E hook \in {"absent", "hook"} : SetUpdate(1, hook)
    \/ \E e \in 1..MaxEnt, out \in Outs(heap) : UpdateEntityCall(e, 1, out)

SpecExpiry == InitExpiry /\ [][NextExpiry]_vars

---------------------------------------------------------------------------
(* Writes followed by reads: the pairs above, and a pair where entity 2    *)
(* was attached to itself (2.addChildEntity(2)), so that 2 is its own      *)
(* _parent.  Relative positions are followed up to twice MaxCoord.         *)

SelfParent == AddChildEntity(Two, 2, 2).h

Near(h) ==
    \A e \in Ent(h) :
        h[e].relativePos.x <= 2 * MaxCoord /\ h[e].relativePos.y <= 2 * MaxCoord

InitWrite ==
    /\ heap \in Pairs \cup {SelfParent}
    /\ frameCounter \in {0, 1}
    /\ lastFrameTotalRenders = 0
    /\ now = 0
    /\ ret = Ret("init", 0, FALSE, None)
    /\ log = << >>
    /\ audioCalls = << >>
    /\ lastRead = [e \in 1..2 |-> NeverRead]
    /\ attachedAt = [e \in 1..2 |-> IF e = 1 THEN NeverAttached ELSE 0]

NextWrite ==
    \/ \E e \in 1..MaxEnt, v \in 0..MaxWrite : SetLeft(e, v) /\ Near(heap')
    \/ \E e \in 1..MaxEnt, v \in 0..MaxWrite : SetTop(e, v) /\ Near(heap')
    \/ \E e \in 1..MaxEnt : GetRelativeLeft(e)
    \/ \E e \in 1..MaxEnt : GetRelativeTop(e)
    \/ SetGame(1)
    \/ NextFrame

SpecWrite == InitWrite /\ [][NextWrite]_vars

---------------------------------------------------------------------------
(* Audio (audio.js).  Inside the class body the name Audio is the class    *)
(* itself, so line 11, this._audioObj = new Audio(), is a call of the same *)
(* constructor: every call reaches line 11 and starts another one, until   *)
(* the call stack is full and a RangeError ends them all.  A call in       *)
(* progress is the object under construction and the line it stands at.    *)

AudioCall == [line |-> 8, loaded |-> "undefined", error |-> "undefined"]

Innermost == audioCalls[Len(audioCalls)]

AudioStep(call) ==
    /\ audioCalls' = [audioCalls EXCEPT ![Len(audioCalls)] = call]
    /\ ret' = Ret("Audio.constructor", Len(audioCalls), FALSE, None)
    /\ log' = << >>
    /\ UNCHANGED <<heap, frameCounter, lastFrameTotalRenders, now, lastRead, attachedAt>>

\* the driver evaluates new Audio(src).play()
NewAudioPlay ==
    /\ audioCalls = << >>
    /\ audioCalls' = << AudioCall >>
    /\ ret' = Ret("Audio.constructor", 1, FALSE, None)
    /\ log' = << >>
    /\ UNCHANGED <<heap, frameCounter, lastFrameTotalRenders, now, lastRead, attachedAt>>

\* line 8: this._loaded = false
AudioLine8 ==
    /\ audioCalls # << >>
    /\ Innermost.line = 8
    /\ AudioStep([Innermost EXCEPT !.loaded = "false", !.line = 9])

\* line 9: this._error = false
AudioLine9 ==
    /\ audioCalls # << >>
    /\ Innermost.line = 9
    /\ AudioStep([Innermost EXCEPT !.error = "false", !.line = 11])

\* line 11: new Audio(), the constructor called again
AudioLine11 ==
    /\ audioCalls # << >>
    /\ Innermost.line = 11
    /\ Len(audioCalls) < MaxStack
    /\ audioCalls' = Append(audioCalls, AudioCall)
    /\ ret' = Ret("Audio.constructor", Len(audioCalls) + 1, FALSE, None)
    /\ log' = << >>
    /\ UNCHANGED <<heap, frameCounter, lastFrameTotalRenders, now, lastRead, attachedAt>>

\* line 11 with the stack full: RangeError, through every call in progress
\* and out of the driver's expression; play() is not reached
AudioOverflow ==
    /\ audioCalls # << >>
    /\ Innermost.line = 11
    /\ Len(audioCalls) = MaxStack
    /\ audioCalls' = << >>
    /\ ret' = Ret("new Audio(src).play()", 0, FALSE, RangeError)
    /\ log' = << >>
    /\ UNCHANGED <<heap, frameCounter, lastFrameTotalRenders, now, lastRead, attachedAt>>

NextAudio ==
    \/ NewAudioPlay
    \/ AudioLine8
    \/ AudioLine9
    \/ AudioLine11
    \/ AudioOverflow

SpecAudio == Init /\ [][NextAudio]_vars

---------------------------------------------------------------------------
(* What the getters return in the current state *)

RelativeLeft(h, e, fc) == CalculateRelativePos(h, e, fc, {}).h[e].relativePos.x

RelativeTop(h, e, fc) == CalculateRelativePos(h, e, fc, {}).h[e].relativePos.y

Left(h, e) == h[e].pos.x

Top(h, e) == h[e].pos.y

Visited(lg, e) == \E i \in DOMAIN lg : lg[i].ev = "_updateEntity" /\ lg[i].e = e

VisitedFrom(lg, e, from) ==
    \E i \in DOMAIN lg : lg[i].ev = "_updateEntity" /\ lg[i].e = e /\ lg[i].from = from

---------------------------------------------------------------------------
(* C1: every entity without a parent has relativeLeft = left and          *)
(* relativeTop = top in every reachable state.  Stated as claimed; the     *)
(* physics step moves pos and leaves the cached relative position behind.  *)
C1_AsClaimed ==
    \A e \in Ent(heap) :
        heap[e].parent = Null =>
            /\ RelativeLeft(heap, e, frameCounter) = Left(heap, e)
            /\ RelativeTop(heap, e, frameCounter) = Top(heap, e)

(* C2: in the chain 1 -> 2 -> 3 within one scene, once all three have been *)
(* resolved at the current frame-counter value (no position written        *)
(* since), the relative position resolved for 3 is the sum of the three    *)
(* local positions.  Stated as claimed; at frame counter 0 the cache of a  *)
(* fresh entity passes for warm.                                           *)
C2_AsClaimed ==
    (\A e \in 1..3 : lastRead[e].clean /\ lastRead[e].frame = frameCounter)
        => /\ lastRead[3].val.x = heap[1].pos.x + heap[2].pos.x + heap[3].pos.x
           /\ lastRead[3].val.y = heap[1].pos.y + heap[2].pos.y + heap[3].pos.y

(* C3: for an entity in the scene, a read of relativeLeft / relativeTop    *)
(* that follows a read of it at the same frame-counter value, no position  *)
(* written in between, returns the same value without recomputing; a read  *)
(* that follows a read of it at an earlier frame-counter value recomputes  *)
(* the cache from the local position and the parent's relative position.   *)
SameFrameRead(e) ==
    lastRead[e].clean /\ lastRead[e].frame = frameCounter

LaterFrameRead(e) ==
    lastRead[e].frame >= 0 /\ lastRead[e].frame < frameCounter

Recomputed(e) ==
    /\ ret'.bool
    /\ heap'[e].lastRelativePosCalculated = frameCounter
    /\ heap'[e].relativePos =
          IF heap[e].parent = Null THEN heap[e].pos
          ELSE Vector2D(heap[e].pos.x + heap'[heap[e].parent].relativePos.x,
                        heap[e].pos.y + heap'[heap[e].parent].relativePos.y)

C3_CachedWithinFrame ==
    [][\A e \in Ent(heap) :
          /\ (GetRelativeLeft(e) /\ heap[e].game = Scene /\ ret'.thrown = None) =>
                /\ SameFrameRead(e) =>
                      ~ret'.bool /\ ret'.num = lastRead[e].val.x
                                 /\ heap'[e].relativePos = lastRead[e].val
                /\ LaterFrameRead(e) =>
                      Recomputed(e) /\ ret'.num = heap'[e].relativePos.x
          /\ (GetRelativeTop(e) /\ heap[e].game = Scene /\ ret'.thrown = None) =>
                /\ SameFrameRead(e) =>
                      ~ret'.bool /\ ret'.num = lastRead[e].val.y
                                 /\ heap'[e].relativePos = lastRead[e].val
                /\ LaterFrameRead(e) =>
                      Recomputed(e) /\ ret'.num = heap'[e].relativePos.y
      ]_vars

\* entity 2, in the scene under 1, recomputed at this frame (> 0) by an earlier
\* read, was just read again from the cache
C3_Witness ==
    /\ ret.op = "relativeLeft" /\ ~ret.bool
    /\ heap[2].game = Scene /\ heap[2].parent = 1
    /\ frameCounter > 0
    /\ heap[2].lastRelativePosCalculated = frameCounter
    /\ lastRead[2].clean /\ lastRead[2].frame = frameCounter
    /\ ret.num = heap[2].relativePos.x
    /\ ret.num # heap[1].relativePos.x

(* C4: detachChildEntity(child) with child in the receiver's list removes  *)
(* exactly one entry equal to child, keeps every other entry in order and  *)
(* returns true; with child absent it returns false and changes nothing.   *)
Without(s, i) == SubSeq(s, 1, i - 1) \o SubSeq(s, i + 1, Len(s))

C4_DetachRemovesOne ==
    [][\A p, c \in Ent(heap) :
          Detach(p, c) =>
              IF c \in Range(heap[p].children)
              THEN /\ ret'.bool
                   /\ \E i \in DOMAIN heap[p].children :
                         /\ heap[p].children[i] = c
                         /\ heap'[p].children = Without(heap[p].children, i)
                   /\ \A q \in Ent(heap) : q # p => heap'[q] = heap[q]
              ELSE ~ret'.bool /\ heap' = heap
      ]_vars

\* a detach has just returned false on a list that still has entries, and some
\* entity whose _parent owns such a list is no longer in it: it was detached
\* (true) before
C4_Witness ==
    /\ ret.op = "detachChildEntity" /\ ~ret.bool
    /\ \E c \in Ent(heap) :
          /\ heap[c].parent # Null
          /\ c \notin Range(heap[heap[c].parent].children)
          /\ Len(heap[heap[c].parent].children) >= 1

(* C5: updateEntity(delta) on an entity whose velocity is (0, 0) and that  *)
(* has no update hook leaves its position and velocity unchanged, whatever *)
(* delta, its acceleration and its fields.                                 *)
C5_StaticStaysPut ==
    [][\A e \in Ent(heap), delta \in 1..MaxDelta, out \in Outs(heap) :
          ( /\ UpdateEntityCall(e, delta, out)
            /\ heap[e].velocity = Vector2D(0, 0)
            /\ heap[e].update = "absent" ) =>
                /\ heap'[e].pos = heap[e].pos
                /\ heap'[e].velocity = heap[e].velocity
      ]_vars

\* entity 1 at rest, with an acceleration and subject to the field 2, was ticked:
\* its child 3 moved, 1 did not
C5_Witness ==
    /\ ret.op = "_updateEntity" /\ ret.num = 1 /\ ret.thrown = None
    /\ heap[1].velocity = Vector2D(0, 0)
    /\ heap[1].acceleration # Vector2D(0, 0)
    /\ heap[1].fields = << 2 >> /\ heap[2].mass # 0
    /\ heap[1].pos = Vector2D(0, 0)
    /\ heap[3].pos # Vector2D(0, 0)

(* C6: with zero acceleration and a single field of mass M whose relative  *)
(* position, as the getters resolve it at the tick, is at offset D # 0     *)
(* from the entity's, one updateEntity(delta) that returns normally adds   *)
(* (D / |D|^3) * M * delta to a non-zero velocity (from (1, 0) with        *)
(* D = (1, 0), M = 1, delta = 1 to (2, 0)) and leaves a zero velocity at   *)
(* (0, 0).                                                                 *)
OffsetRead(e, f) ==
    Vector2D(RelativeLeft(heap, f, frameCounter) - RelativeLeft(heap, e, frameCounter),
             RelativeTop(heap, f, frameCounter) - RelativeTop(heap, e, frameCounter))

Cube(n) == n * n * n

Square(n) == n * n

\* dv = (D / |D|^3) * M * delta, in integers
Gained(dv, D, M, delta) ==
    /\ Square(dv.x) * Cube(Dot(D)) = Square(D.x * M * delta)
    /\ Square(dv.y) * Cube(Dot(D)) = Square(D.y * M * delta)
    /\ dv.x * D.x >= 0
    /\ dv.y * D.y >= 0

OneField(e) ==
    /\ heap[e].acceleration = Vector2D(0, 0)
    /\ Len(heap[e].fields) = 1
    /\ heap[heap[e].fields[1]].mass # 0
    /\ OffsetRead(e, heap[e].fields[1]) # Vector2D(0, 0)

VelocityGain(e) ==
    Vector2D(heap'[e].velocity.x - heap[e].velocity.x,
             heap'[e].velocity.y - heap[e].velocity.y)

C6_Amended ==
    [][\A e \in Ent(heap), delta \in 1..MaxDelta, out \in Outs(heap) :
          (UpdateEntityCall(e, delta, out) /\ OneField(e) /\ ret'.thrown = None) =>
              IF heap[e].velocity = Vector2D(0, 0)
              THEN heap'[e].velocity = Vector2D(0, 0)
              ELSE Gained(VelocityGain(e), OffsetRead(e, heap[e].fields[1]),
                          heap[heap[e].fields[1]].mass, delta)
      ]_vars

\* C6 as claimed: the velocity gained from a zero initial velocity
C6_AsClaimed ==
    [][\A e \in Ent(heap), delta \in 1..MaxDelta, out \in Outs(heap) :
          ( /\ UpdateEntityCall(e, delta, out) /\ OneField(e) /\ ret'.thrown = None
            /\ heap[e].velocity = Vector2D(0, 0) ) =>
              Gained(heap'[e].velocity, OffsetRead(e, heap[e].fields[1]),
                     heap[heap[e].fields[1]].mass, delta)
      ]_vars

\* entity 1, velocity (1, 0), field 2 of mass 1 at offset (1, 0), ticked with
\* delta 1: velocity (2, 0), moved to (2, 0)
C6_Witness ==
    /\ ret.op = "_updateEntity" /\ ret.num = 1 /\ ret.thrown = None
    /\ heap[1].acceleration = Vector2D(0, 0)
    /\ heap[1].fields = << 2 >> /\ heap[2].mass = 1
    /\ heap[2].pos = Vector2D(1, 0)
    /\ heap[1].velocity = Vector2D(2, 0)
    /\ heap[1].pos = Vector2D(2, 0)

(* C7: in a tick where the entity's update hook returns false the entity's *)
(* own physics step still runs and updateEntity is invoked on none of its  *)
(* children; in a tick where the hook returns true updateEntity is invoked *)
(* on every one of its children.  Stated as claimed.                       *)
HookReturned(lg, e, v) ==
    \E i \in DOMAIN lg : lg[i].ev = "update" /\ lg[i].e = e /\ lg[i].val = v

\* the step is a call e._updateEntity(1) by the driver that returned normally
TickOf(e) ==
    ret'.op = "_updateEntity" /\ ret'.num = e /\ ret'.thrown = None

C7_AsClaimed ==
    [][\A e \in Ent(heap) :
          (TickOf(e) /\ heap[e].update = "hook") =>
              /\ HookReturned(log', e, "false") =>
                    /\ heap'[e].pos = VecAdd(heap[e].pos, heap[e].velocity)
                    /\ \A c \in Ent(heap) : ~VisitedFrom(log', c, e)
              /\ HookReturned(log', e, "true") =>
                    \A c \in Range(heap[e].children) : VisitedFrom(log', c, e)
      ]_vars

(* C8: rendering an entity whose display is false calls its render hook    *)
(* not at all and renderEntity on none of its children, with or without a  *)
(* render hook.  Stated as claimed.                                        *)
C8_AsClaimed ==
    [][\A e \in Ent(heap), rout \in Routs(heap) :
          (RenderEntityCall(e, rout) /\ ~heap[e].display) =>
              \A i \in DOMAIN log' :
                  /\ ~(log'[i].ev = "render" /\ log'[i].e = e)
                  /\ ~(log'[i].ev = "_renderEntity" /\ log'[i].from = e)
      ]_vars

(* C9: an entity with timeToLive T constructed at time c, in the children  *)
(* list of its _parent, loses one entry in that list in an updateEntity    *)
(* on it at a time t > c + T, and none in an updateEntity on it at a time  *)
(* t <= c + T.                                                             *)
Listed(e) ==
    /\ heap[e].timeToLive # 0
    /\ heap[e].parent # Null
    /\ e \in Range(heap[heap[e].parent].children)

Entries(h, e) == Count(h[heap[e].parent].children, e)

C9_Amended ==
    [][\A e0 \in Ent(heap) :
          TickOf(e0) =>
              \A e \in Ent(heap) :
                  (Visited(log', e) /\ Listed(e)) =>
                      IF now > heap[e].creationTime + heap[e].timeToLive
                      THEN Entries(heap', e) = Entries(heap, e) - 1
                      ELSE Entries(heap', e) = Entries(heap, e)
      ]_vars

\* C9 as claimed: the time counted from the attachment, the bound included
C9_AsClaimed ==
    [][\A e0 \in Ent(heap) :
          TickOf(e0) =>
              \A e \in Ent(heap) :
                  (Visited(log', e) /\ Listed(e) /\ attachedAt[e] # NeverAttached) =>
                      IF now >= attachedAt[e] + heap[e].timeToLive
                      THEN Entries(heap', e) = Entries(heap, e) - 1
                      ELSE Entries(heap', e) = Entries(heap, e)
      ]_vars

\* an entity past its time to live was reached through its parent's list in
\* the last tick and is in that list no more
C9_Witness ==
    /\ ret.op = "_updateEntity" /\ ret.thrown = None
    /\ \E e \in Ent(heap) :
          /\ heap[e].timeToLive # 0
          /\ heap[e].parent # Null
          /\ e \notin Range(heap[heap[e].parent].children)
          /\ VisitedFrom(log, e, heap[e].parent)
          /\ now > heap[e].creationTime + heap[e].timeToLive

(* C10: every entity has at most one entry in all the children lists       *)
(* together: in one list at most, and there once.  Stated as claimed.      *)
Places(h, c) ==
    { pi \in Ent(h) \X (1..MaxEdges) :
        pi[2] <= Len(h[pi[1]].children) /\ h[pi[1]].children[pi[2]] = c }

C10_AsClaimed ==
    \A c \in Ent(heap) : Cardinality(Places(heap, c)) <= 1

(* C11: after any sequence of createChildEntity, addChildEntity and        *)
(* detachChildEntity calls no entity is reachable from itself through      *)
(* children lists.  Stated as claimed.                                     *)
C11_AsClaimed ==
    \A e \in Ent(heap) : e \notin Descendants(heap, e)

(* C12: when addChildEntity(c) or createChildEntity() on p returns, c has  *)
(* p as _parent, c is the last entry of p.children, and c and every entity *)
(* reachable from c through children lists hold p's scene reference.       *)
AttachedTo(p, c) ==
    /\ heap'[c].parent = p
    /\ Len(heap'[p].children) = Len(heap[p].children) + 1
    /\ heap'[p].children[Len(heap'[p].children)] = c
    /\ \A d \in {c} \cup Descendants(heap', c) : heap'[d].game = heap'[p].game
    /\ heap'[p].game = heap[p].game

C12_AttachPropagates ==
    [][\A p \in Ent(heap) :
          /\ \A c \in Ent(heap) :
                (AddChild(p, c) /\ ret'.thrown = None) => AttachedTo(p, c)
          /\ (CreateChild(p) /\ ret'.thrown = None) => AttachedTo(p, Len(heap) + 1)
      ]_vars

\* 3 was attached to 2 outside the scene, then 2 to the scene node 1: the
\* call returned and 2 and 3 are in the scene
C12_Witness ==
    /\ ret.op = "addChildEntity" /\ ret.num = 2 /\ ret.thrown = None
    /\ Len(heap) = 3
    /\ heap[1].game = Scene /\ heap[1].parent = Null
    /\ heap[1].children = << 2 >> /\ heap[2].children = << 3 >>
    /\ heap[3].children = << >>
    /\ heap[2].parent = 1 /\ heap[3].parent = 2
    /\ heap[2].game = Scene /\ heap[3].game = Scene
    /\ attachedAt[3] # NeverAttached

(* C13: in updateEntity, and in renderEntity on an entity with display =   *)
(* true, the children are visited if the hook (update, resp. render) is    *)
(* absent or returns undefined or a truthy value, and none of them is      *)
(* visited if the hook returns a defined falsy value.  Stated as claimed.  *)
RenderReturned(lg, e, v) ==
    \E i \in DOMAIN lg : lg[i].ev = "render" /\ lg[i].e = e /\ lg[i].val = v

RenderedFrom(lg, e, from) ==
    \E i \in DOMAIN lg : lg[i].ev = "_renderEntity" /\ lg[i].e = e /\ lg[i].from = from

UpdateGoesOn(e) ==
    \/ heap[e].update = "absent"
    \/ HookReturned(log', e, "undefined")
    \/ HookReturned(log', e, "true")

RenderGoesOn(e) ==
    \/ heap[e].render = "absent"
    \/ RenderReturned(log', e, "undefined")
    \/ RenderReturned(log', e, "true")

C13_AsClaimed ==
    [][\A e \in Ent(heap) :
          /\ (ret'.op = "_updateEntity" /\ ret'.num = e) =>
                IF UpdateGoesOn(e)
                THEN \A c \in Range(heap[e].children) : VisitedFrom(log', c, e)
                ELSE \A c \in Ent(heap) : ~VisitedFrom(log', c, e)
          /\ (ret'.op = "_renderEntity" /\ ret'.num = e
                /\ heap[e].display /\ heap[e].render # "Rect") =>
                IF RenderGoesOn(e)
                THEN \A c \in Range(heap[e].children) : RenderedFrom(log', c, e)
                ELSE \A c \in Ent(heap) : ~RenderedFrom(log', c, e)
      ]_vars

(* C14: one updateEntity (resp. renderEntity) call visits the entities in  *)
(* depth-first pre-order, siblings in the order of the children list: the  *)
(* physics step and the update hook (resp. the render hook) of an entity   *)
(* are complete before any of its children is entered, and a child and all *)
(* it reaches are done before the next child is entered.                   *)
IsEnter(x) == x.ev \in {"_updateEntity", "_renderEntity"}

SelfBeforeChildren(lg) ==
    \A i \in DOMAIN lg :
        (IsEnter(lg[i]) /\ lg[i].from # Null) =>
            /\ \E j \in 1..(i - 1) : IsEnter(lg[j]) /\ lg[j].e = lg[i].from
            /\ \A k \in DOMAIN lg :
                  (~IsEnter(lg[k]) /\ lg[k].e = lg[i].from) => k < i

SiblingsInOrder(lg, h) ==
    \A p \in Ent(h) :
        \A a, b \in DOMAIN h[p].children :
            a < b =>
                \A i, k \in DOMAIN lg :
                    ( /\ IsEnter(lg[i])
                      /\ lg[i].e = h[p].children[b] /\ lg[i].from = p
                      /\ lg[k].e \in {h[p].children[a]}
                                        \cup Descendants(h, h[p].children[a]) )
                        => k < i

RootExpired(e) ==
    /\ heap[e].parent = Null
    /\ heap[e].timeToLive # 0
    /\ now - heap[e].creationTime > heap[e].timeToLive

C15_AsClaimed ==
    [][\A e \in Ent(heap) :
          (ret'.op = "_updateEntity" /\ ret'.num = e /\ RootExpired(e)) =>
              /\ ret'.thrown = None
              /\ heap'[e].pos = VecAdd(heap[e].pos, heap[e].velocity)
              /\ heap[e].update = "hook" =>
                    \E v \in UpdateReturns : HookReturned(log', e, v)
              /\ UpdateGoesOn(e) =>
                    \A c \in Range(heap[e].children) : VisitedFrom(log', c, e)
      ]_vars

(* C16: an entity without a scene reference returns, on every read of      *)
(* relativeLeft / relativeTop, its current local position plus its         *)
(* parent's relative position (the local position alone without a          *)
(* parent), also after updateEntity has moved it.  Stated as claimed.      *)
ParentLeft(e) ==
    IF heap[e].parent = Null THEN 0
    ELSE RelativeLeft(heap, heap[e].parent, frameCounter)

ParentTop(e) ==
    IF heap[e].parent = Null THEN 0
    ELSE RelativeTop(heap, heap[e].parent, frameCounter)

C16_AsClaimed ==
    \A e \in Ent(heap) :
        heap[e].game = NoGame =>
            /\ RelativeLeft(heap, e, frameCounter) = Left(heap, e) + ParentLeft(e)
            /\ RelativeTop(heap, e, frameCounter) = Top(heap, e) + ParentTop(e)

(* C17: after e.left = v (resp. e.top = v) a read of e.relativeLeft (resp. *)
(* relativeTop) at the same frame-counter value returns v plus what the    *)
(* parent's relativeLeft (resp. relativeTop) returns, and v without a      *)
(* parent.  Stated as claimed, on the state the write leaves.              *)
ParentLeftAfter(e) ==
    IF heap'[e].parent = Null THEN 0
    ELSE RelativeLeft(heap', heap'[e].parent, frameCounter)

ParentTopAfter(e) ==
    IF heap'[e].parent = Null THEN 0
    ELSE RelativeTop(heap', heap'[e].parent, frameCounter)

C17_AsClaimed ==
    [][\A e \in Ent(heap), v \in 0..MaxWrite :
          /\ (SetLeft(e, v) /\ ret'.thrown = None) =>
                RelativeLeft(heap', e, frameCounter) = v + ParentLeftAfter(e)
          /\ (SetTop(e, v) /\ ret'.thrown = None) =>
                RelativeTop(heap', e, frameCounter) = v + ParentTopAfter(e)
      ]_vars

\* C17 on the entities that are not their own parent
C17_ProperParent ==
    [][\A e \in Ent(heap), v \in 0..MaxWrite :
          /\ (SetLeft(e, v) /\ ret'.thrown = None /\ heap[e].parent # e) =>
                RelativeLeft(heap', e, frameCounter) = v + ParentLeftAfter(e)
          /\ (SetTop(e, v) /\ ret'.thrown = None /\ heap[e].parent # e) =>
                RelativeTop(heap', e, frameCounter) = v + ParentTopAfter(e)
      ]_vars

(* C18: in one updateEntity on a parent whose update propagates, every     *)
(* entity that is in the parent's children list when the call starts has   *)
(* updateEntity invoked on it exactly once, also when children detach      *)
(* themselves through an expired timeToLive during the call.  Stated as    *)
(* claimed.                                                                *)
TimesVisitedFrom(lg, c, from) ==
    Cardinality({ i \in DOMAIN lg :
                    lg[i].ev = "_updateEntity" /\ lg[i].e = c /\ lg[i].from = from })

C18_AsClaimed ==
    [][\A p \in Ent(heap) :
          (TickOf(p) /\ UpdateGoesOn(p)) =>
              \A c \in Range(heap[p].children) : TimesVisitedFrom(log', c, p) = 1
      ]_vars

(* C19: renderEntity on a Rect with display = true invokes Rect.render     *)
(* once and does not raise; with a scene the render counter goes up by one *)
(* and the Rect's children are rendered, without a scene the counter stays *)
(* and no child is rendered.  Stated as claimed.                           *)
TimesRendered(lg, e) ==
    Cardinality({ i \in DOMAIN lg : lg[i].ev = "render" /\ lg[i].e = e })

C19_AsClaimed ==
    [][\A e \in Ent(heap) :
          ( /\ ret'.op = "_renderEntity" /\ ret'.num = e
            /\ heap[e].render = "Rect" /\ heap[e].display ) =>
              /\ ret'.thrown = None
              /\ TimesRendered(log', e) = 1
              /\ IF heap[e].game = Scene
                 THEN /\ lastFrameTotalRenders' = lastFrameTotalRenders + 1
                      /\ \A c \in Range(heap[e].children) : RenderedFrom(log', c, e)
                 ELSE /\ lastFrameTotalRenders' = lastFrameTotalRenders
                      /\ \A c \in Ent(heap) : ~RenderedFrom(log', c, e)
      ]_vars

(* C20: play(), pause() and seek() of an Audio wrapper forward to the      *)
(* underlying audio object only when the most recent of the loadeddata and *)
(* error events was loadeddata, and return false otherwise.  Stated as     *)
(* claimed for the wrapper no event has reached yet: new Audio(src).play() *)
(* returns false and does not raise.                                       *)
C20_AsClaimed ==
    ret.op = "new Audio(src).play()" => (ret.thrown = None /\ ~ret.bool)

===========================================================================
